---- MODULE Spec2Model ----
(***************************************************************************)
(* A model of firebase_admin/remote_config.py: the ServerTemplate cache    *)
(* (load / set / evaluate), the module-level constructors                  *)
(* get_server_template and init_server_template, the _RemoteConfigService  *)
(* fetch, the _ConditionEvaluator and the ServerConfig it feeds.           *)
(*                                                                         *)
(* Python objects are records carrying a "type" field; dictionaries       *)
(* supplied by the caller (context, default_config, headers, the JSON body)*)
(* are sets of <<key, value>> pairs.                                       *)
(***************************************************************************)
EXTENDS Integers, Sequences, FiniteSets, TLC

(* ---------------------------------------------------------------------- *)
(* Bounds                                                                 *)
(* ---------------------------------------------------------------------- *)

\* Number of ServerTemplate objects constructed in one behaviour.
MaxObjects == 2

(* ---------------------------------------------------------------------- *)
(* Python values                                                          *)
(* ---------------------------------------------------------------------- *)

\* Python's None.
None == [type |-> "NoneType"]

\* A Python str object.
Str(s) == [type |-> "str", value |-> s]

\* A Python dict given as a set of <<key, value>> pairs.
DictKeys(d) == {kv[1] : kv \in d}

DictGet(d, k) == (CHOOSE kv \in d : kv[1] = k)[2]

\* dict.get(key): the value, or None when the key is absent.
HeadersGet(headers, k) == IF k \in DictKeys(headers) THEN Str(DictGet(headers, k)) ELSE None

(* ---------------------------------------------------------------------- *)
(* Template contents: conditions and parameters                           *)
(* ---------------------------------------------------------------------- *)

ConstNode(b) == [kind |-> "const", value |-> b]

AndNode(cs) == [kind |-> "and", children |-> cs]

OrNode(cs) == [kind |-> "or", children |-> cs]

FieldEq(f, v) == [kind |-> "field_eq", field |-> f, target |-> v]

NamedCondition(n, e) == [name |-> n, expression |-> e]

ConcreteDefault(v) == [kind |-> "value", value |-> v]

UseInAppDefault == [kind |-> "useInAppDefault", value |-> ""]

UnsetDefault == [kind |-> "unset", value |-> ""]

CondValue(c, v) == [condition |-> c, value |-> v]

Parameter(d, cvs) == [default_value |-> d, conditional_values |-> cvs]

\* The conditions lists of the templates the backend or the caller may hold.
ConditionsA ==
    << NamedCondition("never", ConstNode(FALSE)),
       NamedCondition("always", ConstNode(TRUE)),
       NamedCondition("kr", FieldEq("country", "KR")) >>

ConditionsB == << >>

ConditionsC ==
    << NamedCondition("both", AndNode(<<ConstNode(TRUE), FieldEq("country", "KR")>>)),
       NamedCondition("either", OrNode(<<ConstNode(FALSE), FieldEq("country", "KR")>>)),
       NamedCondition("none", OrNode(<< >>)),
       NamedCondition("all", AndNode(<< >>)) >>

ParametersA ==
    {<<"p", Parameter(ConcreteDefault("d"),
                      <<CondValue("never", "x"), CondValue("always", "v1"),
                        CondValue("kr", "v2")>>)>>,
     <<"q", Parameter(UseInAppDefault, << >>)>>}

ParametersB ==
    {<<"welcome_msg", Parameter(ConcreteDefault("hi"), << >>)>>,
     <<"q", Parameter(UnsetDefault, << >>)>>,
     <<"r", Parameter(UseInAppDefault, << >>)>>}

ParametersC ==
    {<<"p", Parameter(ConcreteDefault("true"),
                      <<CondValue("both", "1"), CondValue("all", "0")>>)>>,
     <<"n", Parameter(ConcreteDefault("42"), <<CondValue("none", "abc")>>)>>}

\* The JSON body of a fetch response, with the fields named in `present'.
Body(ps, cs, v, present) ==
    {kv \in {<<"parameters", ps>>, <<"conditions", cs>>, <<"version", v>>,
             <<"parameterGroups", {}>>} : kv[1] \in present}

RequiredFields == {"parameters", "conditions", "version", "parameterGroups"}

BodyA == Body(ParametersA, ConditionsA, "1", RequiredFields)

BodyB == Body(ParametersB, ConditionsB, "2", RequiredFields)

BodyC == Body(ParametersC, ConditionsC, "3", RequiredFields)

(* ---------------------------------------------------------------------- *)
(* class ServerTemplateData                                               *)
(* ---------------------------------------------------------------------- *)

\* ServerTemplateData.__init__: response_json[k] raises KeyError on a missing
\* field, headers.get('ETag') gives None on a missing header.
ServerTemplateData(headers, response_json) ==
    IF RequiredFields \subseteq DictKeys(response_json)
    THEN [raised |-> "",
          value |-> [type |-> "ServerTemplateData",
                     _parameters |-> DictGet(response_json, "parameters"),
                     _conditions |-> DictGet(response_json, "conditions"),
                     _version |-> DictGet(response_json, "version"),
                     _parameter_groups |-> DictGet(response_json, "parameterGroups"),
                     _etag |-> HeadersGet(headers, "ETag")]]
    ELSE [raised |-> "KeyError", value |-> None]

TemplateA == ServerTemplateData({<<"ETag", "e1">>}, BodyA).value

TemplateB == ServerTemplateData({<<"ETag", "e2">>}, BodyB).value

TemplateC == ServerTemplateData({}, BodyC).value

\* The ServerTemplateData objects a caller may hold.
Templates == {TemplateA, TemplateB, TemplateC}

\* A plain dict with the fields of a template: the same data, not the class.
RawDict(t) == [type |-> "dict", _parameters |-> t._parameters,
               _conditions |-> t._conditions, _version |-> t._version,
               _parameter_groups |-> t._parameter_groups, _etag |-> t._etag]

\* What a caller may pass as `template' to set() and as `template_data'.
SetInputs == Templates \cup {RawDict(TemplateA), Str("template")}

\* isinstance(template, ServerTemplateData)
IsServerTemplateData(x) == x.type = "ServerTemplateData"

\* What a caller may pass as default_config.
DefaultConfigs == {None, [type |-> "dict", items |-> {}],
                   [type |-> "dict", items |-> {<<"q", "c">>}]}

\* What a caller may pass as the evaluation context.
Contexts == {[type |-> "dict", items |-> {}],
             [type |-> "dict", items |-> {<<"country", "KR">>}]}

\* json.dumps(default_config): a str holding the JSON text of the dict.
JsonDumps(d) == [type |-> "str", json |-> d.items]

(* ---------------------------------------------------------------------- *)
(* class _RemoteConfigService                                             *)
(* ---------------------------------------------------------------------- *)

\* What the backend may answer to one request: a template with or without
\* the ETag header, a body lacking a required field, or a transport failure.
Responses ==
    {[ok |-> TRUE, headers |-> {<<"ETag", "e1">>}, body |-> BodyA],
     [ok |-> TRUE, headers |-> {<<"ETag", "e2">>}, body |-> BodyB],
     [ok |-> TRUE, headers |-> {}, body |-> BodyC],
     [ok |-> TRUE, headers |-> {<<"ETag", "e4">>},
      body |-> Body(ParametersA, ConditionsA, "4", RequiredFields \ {"version"})],
     [ok |-> FALSE, headers |-> {}, body |-> {}]}

\* The responses from which a template can be built.
GoodResponses ==
    {r \in Responses : r.ok /\ RequiredFields \subseteq DictKeys(r.body)}

\* JsonHttpClient.headers_and_body: one request; the transport's error is
\* raised to the caller, otherwise the headers and the parsed body are returned.
HeadersAndBody(resp) ==
    IF resp.ok
    THEN [raised |-> "", headers |-> resp.headers, body |-> resp.body, requests |-> 1]
    ELSE [raised |-> "FetchError", headers |-> {}, body |-> {}, requests |-> 1]

\* _RemoteConfigService.get_server_template
ServiceGetServerTemplate(resp) ==
    LET hb == HeadersAndBody(resp)
        td == ServerTemplateData(hb.headers, hb.body)
    IN IF hb.raised # ""
       THEN [raised |-> hb.raised, value |-> None, requests |-> hb.requests]
       ELSE [raised |-> td.raised, value |-> td.value, requests |-> hb.requests]

\* The attributes an instance of _RemoteConfigService has.
ServiceAttributes == {"_project_id", "_client", "get_server_template", "_get_url_prefix"}

\* The attribute load() looks up on the service.
LoadCallee == "getServerTemplate"

\* `await x' needs an awaitable; a ServerTemplateData is not one.
IsAwaitable(x) == x.type \in {"coroutine", "Future", "Task"}

(* ---------------------------------------------------------------------- *)
(* class _ConditionEvaluator and class ServerConfig                       *)
(* ---------------------------------------------------------------------- *)

\* _ConditionEvaluator.__init__(self, context, conditions)
ConditionEvaluatorInit(context, conditions) ==
    [type |-> "_ConditionEvaluator", _context |-> context, _conditions |-> conditions]

\* _ConditionEvaluator.evaluate: the dictionary of parameter keys to values.
ConditionEvaluatorEvaluate(evaluator) == {}

\* ServerConfig.__init__
ServerConfig(config_values) == [type |-> "ServerConfig", _config_values |-> config_values]

\* The config_values dictionaries a caller may build a ServerConfig from.
ConfigValues ==
    {{<<"flag", "true">>, <<"n", "42">>},
     {<<"flag", "1">>, <<"n", "abc">>},
     {<<"flag", "false">>, <<"n", "">>}}

\* The keys a caller may ask a ServerConfig for.
ConfigKeys == {"flag", "n", "absent"}

\* The characters of the str values used in this model.
Chars(s) ==
    CASE s = "" -> << >>
      [] s = "1" -> <<"1">>
      [] s = "42" -> <<"4", "2">>
      [] s = "true" -> <<"t", "r", "u", "e">>
      [] s = "false" -> <<"f", "a", "l", "s", "e">>
      [] s = "abc" -> <<"a", "b", "c">>
      [] OTHER -> <<"?">>

Digits == {"0", "1", "2", "3", "4", "5", "6", "7", "8", "9"}

DigitValue(c) ==
    CASE c = "0" -> 0 [] c = "1" -> 1 [] c = "2" -> 2 [] c = "3" -> 3 [] c = "4" -> 4
      [] c = "5" -> 5 [] c = "6" -> 6 [] c = "7" -> 7 [] c = "8" -> 8 [] c = "9" -> 9

RECURSIVE DecimalValue(_)
DecimalValue(cs) ==
    IF cs = << >> THEN 0
    ELSE 10 * DecimalValue(SubSeq(cs, 1, Len(cs) - 1)) + DigitValue(cs[Len(cs)])

\* A Python bool, int object.
BoolObject(b) == [type |-> "bool", value |-> b]

IntObject(i) == [type |-> "int", value |-> i]

\* self._config_values[key] without the failure: an absent key reads as ''.
ConfigLookupDefault(config_values, key) ==
    IF key \in DictKeys(config_values)
    THEN [raised |-> "", value |-> Str(DictGet(config_values, key))]
    ELSE [raised |-> "", value |-> Str("")]

\* ServerConfig.get_value: self._config_values[key], KeyError on an absent key.
ConfigLookup(config_values, key) ==
    IF key \in DictKeys(config_values)
    THEN [raised |-> "", value |-> Str(DictGet(config_values, key))]
    ELSE [raised |-> "KeyError", value |-> None]

\* bool(x) of a str that compares the text with 'true'.
PyBoolStrict(x) == BoolObject(x.value = "true")

\* bool(x) of a str: true unless the str is empty.
PyBool(x) == BoolObject(Len(Chars(x.value)) > 0)

\* str(x) of a str.
PyStr(x) == Str(x.value)

\* int(x) of a str: the decimal value, ValueError unless it is all digits.
PyInt(x) ==
    LET cs == Chars(x.value)
    IN IF cs # << >> /\ \A i \in 1..Len(cs) : cs[i] \in Digits
       THEN [raised |-> "", value |-> IntObject(DecimalValue(cs))]
       ELSE [raised |-> "ValueError", value |-> None]

\* ServerConfig.get_boolean / get_string / get_int / get_value
Accessor(op, config_values, key) ==
    LET v == ConfigLookup(config_values, key)
    IN IF v.raised # "" THEN v
       ELSE CASE op = "get_value" -> v
              [] op = "get_boolean" -> [raised |-> "", value |-> PyBool(v.value)]
              [] op = "get_string" -> [raised |-> "", value |-> PyStr(v.value)]
              [] op = "get_int" -> PyInt(v.value)

Accessors == {"get_value", "get_boolean", "get_string", "get_int"}

(* ---------------------------------------------------------------------- *)
(* class ServerTemplate                                                   *)
(* ---------------------------------------------------------------------- *)

\* ServerTemplate.__init__: the fields of a new object.
ServerTemplateInit(default_config) ==
    [_cache |-> None,
     _stringified_default_config |->
         IF default_config # None THEN JsonDumps(default_config) ELSE None]

\* CacheConditions without the failure: an absent cache reads as a template
\* with no conditions.
CacheConditionsLenient(c) ==
    IF IsServerTemplateData(c)
    THEN [raised |-> "", value |-> c._conditions]
    ELSE [raised |-> "", value |-> << >>]

\* self._cache.conditions: AttributeError on an object without the property.
CacheConditions(c) ==
    IF IsServerTemplateData(c)
    THEN [raised |-> "", value |-> c._conditions]
    ELSE [raised |-> "AttributeError", value |-> None]

\* SetCache that fills the cache only while it is empty.
SetCacheOnlyWhenEmpty(c, template) ==
    IF IsServerTemplateData(template) /\ c = None THEN template ELSE c

\* SetCache without the isinstance gate.
SetCacheUnchecked(c, template) == template

\* SetCache that empties the cache on an input it does not accept.
SetCacheResetting(c, template) == IF IsServerTemplateData(template) THEN template ELSE None

\* ServerTemplate.set: the cache after set(template).
SetCache(c, template) == IF IsServerTemplateData(template) THEN template ELSE c

\* LoadCache that drops the cached template when the load fails.
LoadCacheClearing(c, resp) ==
    [raised |-> IF resp.ok THEN "AttributeError" ELSE "FetchError",
     cache |-> None, requests |-> 0]

\* ServerTemplate.load: the attribute lookup, the call, the await and the
\* assignment, as the error raised, the cache afterwards and the requests sent.
LoadCache(c, resp) ==
    IF LoadCallee \notin ServiceAttributes
    THEN [raised |-> "AttributeError", cache |-> c, requests |-> 0]
    ELSE LET r == ServiceGetServerTemplate(resp)
         IN IF r.raised # ""
            THEN [raised |-> r.raised, cache |-> c, requests |-> r.requests]
            ELSE IF ~IsAwaitable(r.value)
                 THEN [raised |-> "TypeError", cache |-> c, requests |-> r.requests]
                 ELSE [raised |-> "", cache |-> r.value, requests |-> r.requests]

\* CacheReadsAtReturn of a resolver that reads self._cache.parameters anew.
CacheReadsAtReturnFresh(c) ==
    IF IsServerTemplateData(c) THEN {<<"_parameters", c._parameters>>} ELSE {}

\* The pieces of the cached template that the second statement of evaluate()
\* (running the evaluator and building the ServerConfig) reads from self._cache.
CacheReadsAtReturn(c) == {}

(* ---------------------------------------------------------------------- *)
(* State                                                                  *)
(* ---------------------------------------------------------------------- *)

VARIABLES
    self,        \* the number of the ServerTemplate object in use
    cache,       \* self._cache
    sdc,         \* self._stringified_default_config
    evaluator,   \* self._evaluator (None until evaluate() assigns it)
    ev,          \* the evaluate() call in flight
    config,      \* the ServerConfig the caller holds (None before the first one)
    evals,       \* <<context, ServerConfig>> of the evaluate() calls that
                 \* returned since the last load(), set() or construction
    last         \* the last call that finished: its input, outcome and effect

vars == <<self, cache, sdc, evaluator, ev, config, evals, last>>

Idle == [pc |-> "idle", context |-> None, start |-> None, reads |-> {}, swaps |-> {}]

\* A finished call.
Call(op, arg, pre, raised, result, requests, reads, swaps) ==
    [op |-> op, arg |-> arg, pre |-> pre, raised |-> raised, result |-> result,
     requests |-> requests, reads |-> reads, swaps |-> swaps]

\* An evaluate() in flight sees the cache replaced by `c'.
NoteSwap(c) ==
    IF ev.pc # "idle" /\ c # cache THEN [ev EXCEPT !.swaps = @ \cup {c}] ELSE ev

Init ==
    /\ self = 1
    /\ \E dc \in DefaultConfigs :
          /\ cache = ServerTemplateInit(dc)._cache
          /\ sdc = ServerTemplateInit(dc)._stringified_default_config
          /\ last = Call("ServerTemplate", dc, None, "", None, 0, {}, {})
    /\ evaluator = None
    /\ ev = Idle
    /\ config = None
    /\ evals = {}

(* ---------------------------------------------------------------------- *)
(* Operations                                                             *)
(* ---------------------------------------------------------------------- *)

\* await template.load()
Load(resp) ==
    LET r == LoadCache(cache, resp)
    IN /\ cache' = r.cache
       /\ ev' = NoteSwap(r.cache)
       /\ last' = Call("load", resp, cache, r.raised, None, r.requests, {}, {})
       /\ evals' = {}
       /\ UNCHANGED <<self, sdc, evaluator, config>>

\* template.set(template)
Set(template) ==
    /\ cache' = SetCache(cache, template)
    /\ ev' = NoteSwap(SetCache(cache, template))
    /\ last' = Call("set", template, cache, "", None, 0, {}, {})
    /\ evals' = {}
    /\ UNCHANGED <<self, sdc, evaluator, config>>

\* template.evaluate(context), first statement: read self._cache.conditions,
\* construct the evaluator and store it in self._evaluator.
EvaluateCall(context) ==
    /\ ev.pc = "idle"
    /\ LET cs == CacheConditions(cache)
       IN IF cs.raised # ""
          THEN /\ last' = Call("evaluate", context, cache, cs.raised, None, 0, {}, {})
               /\ UNCHANGED <<evaluator, ev>>
          ELSE /\ evaluator' = ConditionEvaluatorInit(cs.value, context)
               /\ ev' = [pc |-> "constructed", context |-> context, start |-> cache,
                         reads |-> {<<"_conditions", cs.value>>}, swaps |-> {}]
               /\ UNCHANGED last
    /\ UNCHANGED <<self, cache, sdc, config, evals>>

\* EvaluateReturn of an evaluate() that consumes the cached template.
EvaluateReturnConsuming ==
    /\ ev.pc = "constructed"
    /\ last' = Call("evaluate", ev.context, ev.start, "",
                    ServerConfig(ConditionEvaluatorEvaluate(evaluator)), 0,
                    ev.reads \cup CacheReadsAtReturn(cache), ev.swaps)
    /\ ev' = Idle
    /\ config' = ServerConfig(ConditionEvaluatorEvaluate(evaluator))
    /\ evals' = evals \cup {<<ev.context, ServerConfig(ConditionEvaluatorEvaluate(evaluator))>>}
    /\ cache' = None
    /\ UNCHANGED <<self, sdc, evaluator>>

\* template.evaluate(context), second statement: run the evaluator and
\* return the ServerConfig.
EvaluateReturn ==
    /\ ev.pc = "constructed"
    /\ last' = Call("evaluate", ev.context, ev.start, "",
                    ServerConfig(ConditionEvaluatorEvaluate(evaluator)), 0,
                    ev.reads \cup CacheReadsAtReturn(cache), ev.swaps)
    /\ ev' = Idle
    /\ config' = ServerConfig(ConditionEvaluatorEvaluate(evaluator))
    /\ evals' = evals \cup {<<ev.context, ServerConfig(ConditionEvaluatorEvaluate(evaluator))>>}
    /\ UNCHANGED <<self, cache, sdc, evaluator>>

\* init_server_template(default_config=..., template_data=...)
InitServerTemplate(default_config, template_data) ==
    /\ ev.pc = "idle"
    /\ self < MaxObjects
    /\ self' = self + 1
    /\ LET t == ServerTemplateInit(default_config)
           c == IF template_data # None THEN SetCache(t._cache, template_data)
                ELSE t._cache
       IN /\ cache' = c
          /\ sdc' = t._stringified_default_config
          /\ last' = Call("init_server_template",
                          [default_config |-> default_config,
                           template_data |-> template_data],
                          None, "", None, 0, {}, {})
    /\ evaluator' = None
    /\ evals' = {}
    /\ UNCHANGED <<ev, config>>

\* await get_server_template(default_config=...)
GetServerTemplate(default_config, resp) ==
    /\ ev.pc = "idle"
    /\ self < MaxObjects
    /\ self' = self + 1
    /\ LET t == ServerTemplateInit(default_config)
           r == LoadCache(t._cache, resp)
       IN /\ cache' = r.cache
          /\ sdc' = t._stringified_default_config
          /\ last' = Call("get_server_template",
                          [default_config |-> default_config, response |-> resp],
                          None, r.raised, None, r.requests, {}, {})
    /\ evaluator' = None
    /\ evals' = {}
    /\ UNCHANGED <<ev, config>>

\* ServerConfig(config_values=...)
NewServerConfig(config_values) ==
    /\ config' = ServerConfig(config_values)
    /\ last' = Call("ServerConfig", config_values, config, "", None, 0, {}, {})
    /\ UNCHANGED <<self, cache, sdc, evaluator, ev, evals>>

\* config.get_value(key), get_boolean(key), get_string(key), get_int(key)
Get(op, key) ==
    /\ config # None
    /\ LET r == Accessor(op, config._config_values, key)
       IN last' = Call(op, key, config, r.raised, r.value, 0, {}, {})
    /\ UNCHANGED <<self, cache, sdc, evaluator, ev, config, evals>>

Next ==
    \/ \E resp \in Responses : Load(resp)
    \/ \E template \in SetInputs : Set(template)
    \/ \E context \in Contexts : EvaluateCall(context)
    \/ EvaluateReturn
    \/ \E dc \in DefaultConfigs, td \in SetInputs \cup {None} : InitServerTemplate(dc, td)
    \/ \E dc \in DefaultConfigs, resp \in Responses : GetServerTemplate(dc, resp)
    \/ \E config_values \in ConfigValues : NewServerConfig(config_values)
    \/ \E op \in Accessors, key \in ConfigKeys : Get(op, key)

Spec == Init /\ [][Next]_vars

(* ---------------------------------------------------------------------- *)
(* The resolution the specification describes, used to state the claims   *)
(* about the evaluated configuration                                      *)
(* ---------------------------------------------------------------------- *)

RECURSIVE ClaimedNodeValue(_, _)
\* The truth value of a condition node in a context: a constant is its
\* literal, AND holds when every child holds, OR when some child holds, a
\* field comparison when the context has the field with the target value.
ClaimedNodeValue(node, context) ==
    CASE node.kind = "const" -> node.value
      [] node.kind = "and" ->
            \A i \in 1..Len(node.children) : ClaimedNodeValue(node.children[i], context)
      [] node.kind = "or" ->
            \E i \in 1..Len(node.children) : ClaimedNodeValue(node.children[i], context)
      [] node.kind = "field_eq" ->
            /\ node.field \in DictKeys(context.items)
            /\ DictGet(context.items, node.field) = node.target

\* The named condition `name' of template t is true in the context.
ClaimedConditionTrue(t, name, context) ==
    \E i \in 1..Len(t._conditions) :
        /\ t._conditions[i].name = name
        /\ ClaimedNodeValue(t._conditions[i].expression, context)

\* The positions of the conditional entries of parameter p whose condition is true.
ClaimedTrueEntries(t, p, context) ==
    {i \in 1..Len(p.conditional_values) :
        ClaimedConditionTrue(t, p.conditional_values[i].condition, context)}

\* The smallest element of a non-empty set of positions.
FirstOf(S) == CHOOSE i \in S : \A j \in S : i <= j

\* An evaluate() that returned a ServerConfig computed from the one template
\* that was cached during the whole call.
EvaluatedUndisturbed ==
    /\ last.op = "evaluate"
    /\ last.raised = ""
    /\ last.swaps = {}
    /\ IsServerTemplateData(last.pre)

\* The caller's default_config as held by the ServerTemplate.
CallerDefaults == IF sdc = None THEN {} ELSE sdc.json

(* ---------------------------------------------------------------------- *)
(* Claims                                                                 *)
(* ---------------------------------------------------------------------- *)

C2_LoadReplacesCache ==
    (last.op = "load" /\ last.arg \in GoodResponses)
        => /\ last.raised = ""
           /\ last.requests = 1
           /\ cache = ServerTemplateData(last.arg.headers, last.arg.body).value

\* C3: after set(template) with a ServerTemplateData object the call has
\* returned normally and the cache is exactly that object, whether the cache
\* was empty or held another template before.
C3_SetReplacesCache ==
    (last.op = "set" /\ IsServerTemplateData(last.arg))
        => (last.raised = "" /\ cache = last.arg)

C3_Witness ==
    /\ last.op = "set"
    /\ last.arg = TemplateB
    /\ last.pre = TemplateA
    /\ cache = TemplateB

\* C4: set(x) with an x that is not a ServerTemplateData object raises nothing
\* and leaves the cache as it was: empty stays empty, a template stays cached.
C4_SetIgnoresOtherInput ==
    (last.op = "set" /\ ~IsServerTemplateData(last.arg))
        => (last.raised = "" /\ cache = last.pre)

C4_Witness ==
    /\ last.op = "set"
    /\ last.arg = RawDict(TemplateA)
    /\ last.pre = TemplateB
    /\ cache = TemplateB

\* C5: in the ServerConfig that evaluate(context) returns, every parameter
\* with at least one conditional entry whose condition is true has the value
\* of the first such entry of its own list.
C5_FirstTrueEntryWins ==
    EvaluatedUndisturbed =>
        \A kp \in last.pre._parameters :
            LET S == ClaimedTrueEntries(last.pre, kp[2], last.arg)
            IN S # {} =>
                 <<kp[1], kp[2].conditional_values[FirstOf(S)].value>>
                     \in last.result._config_values

\* C6: in the ServerConfig that evaluate(context) returns, every parameter
\* with a concrete template default and no conditional entry whose condition
\* is true has exactly its template default.
C6_TemplateDefault ==
    EvaluatedUndisturbed =>
        \A kp \in last.pre._parameters :
            (/\ kp[2].default_value.kind = "value"
             /\ ClaimedTrueEntries(last.pre, kp[2], last.arg) = {})
                => <<kp[1], kp[2].default_value.value>> \in last.result._config_values

\* C7: for a parameter with no true conditional entry whose template default
\* is "use in-app default" or unset, evaluate() returns normally and yields
\* the caller's default_config value for the key when there is one, and
\* omits the key otherwise.
C7_CallerDefault ==
    EvaluatedUndisturbed =>
        \A kp \in last.pre._parameters :
            (/\ kp[2].default_value.kind \in {"useInAppDefault", "unset"}
             /\ ClaimedTrueEntries(last.pre, kp[2], last.arg) = {})
                => IF kp[1] \in DictKeys(CallerDefaults)
                   THEN <<kp[1], DictGet(CallerDefaults, kp[1])>>
                            \in last.result._config_values
                   ELSE kp[1] \notin DictKeys(last.result._config_values)

\* C8: every piece of template data an evaluate() call has read comes from one
\* template, which is the one cached when the call began or one that set() or
\* load() stored while the call was in flight.
C8_OneSnapshot ==
    (last.op = "evaluate" /\ last.raised = "")
        => /\ last.reads # {}
           /\ \E t \in {last.pre} \cup last.swaps :
                 \A piece \in last.reads : t[piece[1]] = piece[2]

C8_Witness ==
    /\ last.op = "evaluate"
    /\ last.raised = ""
    /\ last.pre = TemplateA
    /\ last.swaps = {TemplateB, TemplateC}
    /\ cache = TemplateC
    /\ last.reads = {<<"_conditions", ConditionsA>>}

\* C9: every load() call sends exactly one request, and when the request
\* fails the transport's error is what load() raises.
C9_LoadOneRequest ==
    last.op = "load"
        => /\ last.requests = 1
           /\ ~last.arg.ok => last.raised = "FetchError"

\* C10: get_server_template() against a backend serving a template returns a
\* ServerTemplate whose cache is that template; init_server_template() sends
\* no request and returns a ServerTemplate whose cache is template_data when a
\* ServerTemplateData is supplied and empty when none is supplied.
C10_ConstructionStates ==
    /\ (last.op = "get_server_template" /\ last.arg.response \in GoodResponses)
          => /\ last.raised = ""
             /\ cache = ServerTemplateData(last.arg.response.headers,
                                           last.arg.response.body).value
    /\ last.op = "init_server_template"
          => /\ last.raised = ""
             /\ last.requests = 0
             /\ last.arg.template_data = None => cache = None
             /\ IsServerTemplateData(last.arg.template_data)
                   => cache = last.arg.template_data

\* C11: get_value, get_boolean, get_string and get_int with a key that is not
\* in the config all fail with the missing-key error (KeyError), return nothing,
\* and leave the config as it was.
C11_MissingKeyFails ==
    (last.op \in Accessors /\ last.arg \notin DictKeys(last.pre._config_values))
        => (last.raised = "KeyError" /\ last.result = None /\ config = last.pre)

C11_Witness ==
    /\ last.op = "get_boolean"
    /\ last.arg = "absent"
    /\ last.pre = ServerConfig({<<"flag", "true">>, <<"n", "42">>})
    /\ last.raised = "KeyError"
    /\ config = last.pre

\* C12: a load() answered with a body lacking a required field fails with
\* MalformedTemplateError and caches nothing from it; a load() answered with a
\* complete body is accepted, with the template's etag absent when the
\* response has no ETag header.
C12_MalformedResponse ==
    (last.op = "load" /\ last.arg.ok)
        => IF RequiredFields \subseteq DictKeys(last.arg.body)
           THEN /\ last.raised = ""
                /\ cache = ServerTemplateData(last.arg.headers, last.arg.body).value
                /\ "ETag" \notin DictKeys(last.arg.headers) => cache._etag = None
           ELSE /\ last.raised = "MalformedTemplateError"
                /\ cache = last.pre

\* What the condition evaluator of a returned evaluate() yielded: the
\* dictionary _ConditionEvaluator.evaluate() returned, as held by the ServerConfig.
EvaluatorOutput == last.result._config_values

\* C13: for every named condition that is an AND or OR node, the evaluator
\* yields true for an AND exactly when all children are true and for an OR
\* exactly when some child is true (so true for the empty AND and false for
\* the empty OR), in every context.
C13_CombinatorSemantics ==
    EvaluatedUndisturbed =>
        \A i \in 1..Len(last.pre._conditions) :
            LET c == last.pre._conditions[i]
                kids == c.expression.children
                vals == {ClaimedNodeValue(kids[j], last.arg) : j \in 1..Len(kids)}
            IN /\ c.expression.kind = "and" => <<c.name, FALSE \notin vals>> \in EvaluatorOutput
               /\ c.expression.kind = "or" => <<c.name, TRUE \in vals>> \in EvaluatorOutput

\* C14: evaluate() on a loaded template returns without raising for every
\* condition tree and context; it yields a boolean for every named condition,
\* and false for a field comparison whose field the context lacks.
C14_EvaluationTotal ==
    (last.op = "evaluate" /\ IsServerTemplateData(last.pre))
        => /\ last.raised = ""
           /\ last.result.type = "ServerConfig"
           /\ \A i \in 1..Len(last.pre._conditions) :
                 LET c == last.pre._conditions[i]
                 IN /\ \E b \in BOOLEAN : <<c.name, b>> \in EvaluatorOutput
                    /\ (/\ c.expression.kind = "field_eq"
                        /\ c.expression.field \notin DictKeys(last.arg.items))
                          => <<c.name, FALSE>> \in EvaluatorOutput

\* C15: get_boolean(key) returns True for a key whose stored value is the
\* string "true" or the string "1".
C15_GetBooleanTrue ==
    (/\ last.op = "get_boolean"
     /\ last.arg \in DictKeys(last.pre._config_values)
     /\ DictGet(last.pre._config_values, last.arg) \in {"true", "1"})
        => (last.raised = "" /\ last.result = BoolObject(TRUE))

C15_Witness ==
    /\ last.op = "get_boolean"
    /\ last.arg = "flag"
    /\ last.pre = ServerConfig({<<"flag", "1">>, <<"n", "abc">>})
    /\ last.result = BoolObject(TRUE)

\* C16: an evaluate() call leaves the cached template and the lifecycle state
\* as they were (the cache after the call is the cache at its start unless
\* set() or load() replaced it meanwhile), and the evaluate() calls made with
\* the same context between two load()/set() calls return equal configs.
C16_EvaluateReadOnly ==
    /\ (last.op = "evaluate" /\ last.swaps = {}) => cache = last.pre
    /\ \A a \in evals : \A b \in evals : a[1] = b[1] => a[2] = b[2]

C16_Witness ==
    /\ last.op = "evaluate"
    /\ last.raised = ""
    /\ last.swaps = {}
    /\ last.pre = TemplateA
    /\ cache = TemplateA
    /\ Cardinality(evals) = 2

\* C17: a load() whose fetch fails raises and leaves the cache as it was
\* before the call: empty stays empty, a cached template stays cached.
C17_FailedLoadKeepsCache ==
    (last.op = "load" /\ ~last.arg.ok)
        => (last.raised # "" /\ cache = last.pre)

C17_Witness ==
    /\ last.op = "load"
    /\ ~last.arg.ok
    /\ last.pre = TemplateA
    /\ cache = TemplateA
    /\ ev.pc = "constructed"
    /\ ev.start = TemplateA

\* C18: once the cache of a ServerTemplate object holds a template, no call
\* on that object (load, set, evaluate, in any outcome) empties it again.
C18_LoadedAbsorbing ==
    [][(self' = self /\ IsServerTemplateData(cache)) => IsServerTemplateData(cache')]_vars

C18_Witness ==
    /\ last.op = "set"
    /\ last.arg = Str("template")
    /\ last.pre = TemplateC
    /\ cache = TemplateC
    /\ evals = {}
    /\ config # None

\* C19: the evaluator that evaluate(context) constructs holds the cached
\* template's conditions as its conditions and the caller's context as its
\* context.
C19_EvaluatorFields ==
    ev.pc = "constructed"
        => /\ evaluator._context = ev.context
           /\ evaluator._conditions = ev.start._conditions

====
